---- MODULE Spec2Model ----
(***************************************************************************)
(* Provider side of the SMTP integrator charm (src/src/charm.py) together  *)
(* with the relation library it publishes through                          *)
(* (src/lib/charms/smtp_integrator/v0/smtp.py).                            *)
(*                                                                         *)
(* The application-level state (relation data-bags, the peer data-bag and  *)
(* the secret store) is shared by all units of the application and every   *)
(* unit runs the same handlers, to completion, one at a time.  The model   *)
(* follows one unit; is_leader tells whether that unit holds leadership,   *)
(* and the runtime may move leadership to or away from it at any time.     *)
(***************************************************************************)
EXTENDS Integers, Sequences, FiniteSets, TLC

\* ------------------------------------------------------------------ bounds
MaxLegacy == 1          \* number of smtp-legacy relations that may ever exist
MaxModern == 2          \* number of smtp relations that may ever exist
MaxRevisions == 2       \* cap on the revisions of one secret

\* ------------------------------------------------------------- value sets
None == "None"          \* Python None / an option that is not set

LegacyIds == 1..MaxLegacy
ModernIds == (MaxLegacy + 1)..(MaxLegacy + MaxModern)
RelIds == LegacyIds \cup ModernIds

PEER_RELATION_NAME == "smtp-peers"
LEGACY_RELATION_NAME == "smtp-legacy"
DEFAULT_RELATION_NAME == "smtp"

AuthType == {"none", "not_provided", "plain"}
TransportSecurity == {"none", "starttls", "tls"}

Hosts == {None, "smtp.example"}
Ports == {25}
Users == {None}
Passwords == {None, "secret123", "hunter2"}
AuthTypeOptions == {"none"}
TransportSecurityOptions == {"none"}
Domains == {None}

Configs ==
    [host : Hosts, port : Ports, user : Users, password : Passwords,
     auth_type : AuthTypeOptions, transport_security : TransportSecurityOptions,
     domain : Domains, skip_ssl_verify : {FALSE}]

\* The options the charm reads, as conftest.py sets them.
MINIMAL_CONFIG ==
    [host |-> "smtp.example", port |-> 25, user |-> None, password |-> None,
     auth_type |-> "none", transport_security |-> "none", domain |-> None,
     skip_ssl_verify |-> FALSE]

\* Exceptions a handler step can end with.
OK == "ok"
CharmConfigInvalidError == "CharmConfigInvalidError"
NotReadyError == "NotReadyError"
SecretNotFoundError == "SecretNotFoundError"

VARIABLES
    config,             \* self.config of the application
    is_leader,          \* self.unit.is_leader()
    unit_status,        \* self.unit.status
    has_secrets,        \* JujuVersion.from_environ().has_secrets
    peer_relation,      \* the smtp-peers relation exists
    created,            \* relation ids that have been handed out
    relations,          \* ids of the relations in self.model.relations
    relation_data,      \* relation.data[app] of each relation
    peer_data,          \* peer_relation.data[app]
    secrets,            \* the secret store: id -> revisions and grants
    smtp_data_available, \* events the requirer library emitted in its last handler
    last                \* the handler that ran last, with the state before it

vars == <<config, is_leader, unit_status, has_secrets, peer_relation, created,
          relations, relation_data, peer_data, secrets, smtp_data_available,
          last>>

\* ------------------------------------------------------------ dictionaries
EmptyDict == [k \in {} |-> ""]

\* dict.update(new): keys of `new` are set, every other key is kept.
update(bag, new) ==
    [k \in (DOMAIN bag) \cup (DOMAIN new) |->
        IF k \in DOMAIN new THEN new[k] ELSE bag[k]]

\* Python truthiness of an Optional[str].
Truthy(s) == s # None /\ s # ""

\* The application state the handlers read and write.
World == [data |-> relation_data, peer |-> peer_data, secrets |-> secrets]
EmptyWorld ==
    [data |-> [r \in RelIds |-> EmptyDict], peer |-> EmptyDict,
     secrets |-> EmptyDict]

\* ------------------------------------------------------------ secret store
SecretId(n) == "secret:" \o ToString(n)

latest_content(secret) == secret.revisions[Len(secret.revisions)]

add_secret(w, content) ==
    LET id == SecretId(Cardinality(DOMAIN w.secrets) + 1)
    IN  [id |-> id,
         w  |-> [w EXCEPT !.secrets =
                    (id :> [revisions |-> <<content>>, grants |-> {}]) @@ @]]

set_content(w, id, content) ==
    [w EXCEPT !.secrets[id].revisions = Append(@, content)]

grant(w, id, relation) ==
    [w EXCEPT !.secrets[id].grants = @ \cup {relation}]

revoke(w, id, relation) ==
    [w EXCEPT !.secrets[id].grants = @ \ {relation}]

\* ------------------------------------------------------- relation library
\* SmtpRelationData(...): pydantic construction is the validation gate.
SmtpRelationData_valid(d) ==
    /\ d.host # None /\ Len(d.host) >= 1
    /\ d.port \in Int
    /\ d.auth_type \in AuthType
    /\ d.transport_security \in TransportSecurity

\* to_relation_data that writes the optional fields whether set or not.
to_relation_data_all_keys(d) ==
    [k \in {"host", "port", "auth_type", "transport_security", "domain",
            "user", "password"} |->
        CASE k = "host" -> d.host
          [] k = "port" -> ToString(d.port)
          [] k = "auth_type" -> d.auth_type
          [] k = "transport_security" -> d.transport_security
          [] k = "domain" -> d.domain
          [] k = "user" -> d.user
          [] k = "password" -> d.password]

to_relation_data(d) ==
    LET result == [k \in {"host", "port", "auth_type", "transport_security"} |->
                     CASE k = "host" -> d.host
                       [] k = "port" -> ToString(d.port)
                       [] k = "auth_type" -> d.auth_type
                       [] k = "transport_security" -> d.transport_security]
        domain == IF Truthy(d.domain) THEN ("domain" :> d.domain) ELSE EmptyDict
        user == IF Truthy(d.user) THEN ("user" :> d.user) ELSE EmptyDict
        password == IF Truthy(d.password) THEN ("password" :> d.password)
                    ELSE EmptyDict
    IN  update(update(update(result, domain), user), password)

\* The encoding that publishes the plaintext password next to the reference.
to_relation_data_password_id_with_password(d) ==
    LET ssl == "skip_ssl_verify" :> (IF d.skip_ssl_verify THEN "True" ELSE "False")
    IN  IF Truthy(d.password_id)
        THEN update(update(to_relation_data(d), ssl),
                    "password_id" :> d.password_id)
        ELSE update(to_relation_data(d), ssl)

\* The library release the charm is written against adds password_id and
\* skip_ssl_verify: a reference, when set, is published instead of the
\* plaintext password.
to_relation_data_password_id(d) ==
    LET ssl == "skip_ssl_verify" :> (IF d.skip_ssl_verify THEN "True" ELSE "False")
    IN  IF Truthy(d.password_id)
        THEN update(update(to_relation_data([d EXCEPT !.password = None]), ssl),
                    "password_id" :> d.password_id)
        ELSE update(to_relation_data(d), ssl)

\* update_relation_data that leaves the keys already published as they are.
update_relation_data_keep_published(w, relation, smtp_data) ==
    [w EXCEPT !.data[relation] =
        update(to_relation_data_password_id(smtp_data), @)]

update_relation_data(w, relation, smtp_data) ==
    [w EXCEPT !.data[relation] =
        update(@, to_relation_data_password_id(smtp_data))]

\* ------------------------------------------------------------------ charm
_has_secrets == has_secrets

\* model.relations[name], in id order.
RECURSIVE SortedSeq(_)
SortedSeq(S) ==
    IF S = {} THEN <<>>
    ELSE LET m == CHOOSE x \in S : \A y \in S : x <= y
         IN  <<m>> \o SortedSeq(S \ {m})

model_relations(name) ==
    LET ids == IF name = LEGACY_RELATION_NAME THEN LegacyIds ELSE ModernIds
    IN  SortedSeq(ids \cap relations)

\* _get_peer_data that hands out the data-bag without a peer relation.
_get_peer_data_always_ready(w) == [exc |-> OK, data |-> w.peer]

\* _get_peer_data raises NotReadyError when there is no peer relation.
_get_peer_data(w) ==
    IF ~peer_relation THEN [exc |-> NotReadyError, data |-> EmptyDict]
    ELSE [exc |-> OK, data |-> w.peer]

_get_peer_secret(w) ==
    LET lookup(p) ==
          IF p.exc # OK THEN [exc |-> p.exc, id |-> None]
          ELSE IF "secret-id" \notin DOMAIN p.data
                  \/ ~Truthy(p.data["secret-id"])
          THEN [exc |-> OK, id |-> None]
          ELSE IF p.data["secret-id"] \notin DOMAIN w.secrets
          THEN [exc |-> SecretNotFoundError, id |-> None]
          ELSE [exc |-> OK, id |-> p.data["secret-id"]]
    IN  lookup(_get_peer_data(w))

\* _ensure_peer_secret writing the content without comparing it first.
_ensure_peer_secret_always_set(w, content) ==
    LET store(w1, id) ==
          [exc |-> OK, w |-> set_content(w1, id, content), id |-> id]
        record(a) ==
          store([a.w EXCEPT !.peer = update(@, "secret-id" :> a.id)], a.id)
        ensure(s) ==
          IF s.exc # OK THEN [exc |-> s.exc, w |-> w, id |-> None]
          ELSE record(IF s.id = None THEN add_secret(w, content)
                      ELSE [id |-> s.id, w |-> w])
    IN  ensure(_get_peer_secret(w))

\* _ensure_peer_secret that never updates the content of an existing secret.
_ensure_peer_secret_never_set(w, content) ==
    LET store(w1, id) == [exc |-> OK, w |-> w1, id |-> id]
        record(a) ==
          store([a.w EXCEPT !.peer = update(@, "secret-id" :> a.id)], a.id)
        ensure(s) ==
          IF s.exc # OK THEN [exc |-> s.exc, w |-> w, id |-> None]
          ELSE record(IF s.id = None THEN add_secret(w, content)
                      ELSE [id |-> s.id, w |-> w])
    IN  ensure(_get_peer_secret(w))

\* _ensure_peer_secret that replaces the secret when the content differs.
_ensure_peer_secret_new_secret(w, content) ==
    LET record(a) ==
          [exc |-> OK,
           w |-> [a.w EXCEPT !.peer = update(@, "secret-id" :> a.id)],
           id |-> a.id]
        ensure(s) ==
          IF s.exc # OK THEN [exc |-> s.exc, w |-> w, id |-> None]
          ELSE record(IF s.id = None
                         \/ latest_content(w.secrets[s.id]) # content
                      THEN add_secret(w, content)
                      ELSE [id |-> s.id, w |-> w])
    IN  ensure(_get_peer_secret(w))

\* secret = add_secret(content) when none is recorded; the id is written to
\* the peer data-bag; set_content only when the latest content differs.
_ensure_peer_secret(w, content) ==
    LET store(w1, id) ==
          [exc |-> OK,
           w |-> IF latest_content(w1.secrets[id]) # content
                 THEN set_content(w1, id, content)
                 ELSE w1,
           id |-> id]
        record(a) ==
          store([a.w EXCEPT !.peer = update(@, "secret-id" :> a.id)], a.id)
        ensure(s) ==
          IF s.exc # OK THEN [exc |-> s.exc, w |-> w, id |-> None]
          ELSE record(IF s.id = None THEN add_secret(w, content)
                      ELSE [id |-> s.id, w |-> w])
    IN  ensure(_get_peer_secret(w))

\* _generate_smtp_data that forgets the recorded secret when the password is
\* empty.
_generate_smtp_data_clear_reference(w) ==
    LET password == config.password
        validate(e, d) ==
          IF e.exc # OK THEN [exc |-> e.exc, w |-> e.w, data |-> d]
          ELSE IF ~SmtpRelationData_valid(d)
          THEN [exc |-> CharmConfigInvalidError, w |-> e.w, data |-> d]
          ELSE [exc |-> OK, w |-> e.w, data |-> d]
        construct(e) ==
          validate(e, [host |-> config.host, port |-> config.port,
                       user |-> config.user,
                       password_id |-> e.id, password |-> password,
                       auth_type |-> config.auth_type,
                       transport_security |-> config.transport_security,
                       domain |-> config.domain,
                       skip_ssl_verify |-> config.skip_ssl_verify])
    IN  construct(IF Truthy(password) /\ _has_secrets
                  THEN _ensure_peer_secret(w, [password |-> password])
                  ELSE [exc |-> OK, w |-> [w EXCEPT !.peer = EmptyDict],
                        id |-> None])

\* _generate_smtp_data that never puts the password into a secret.
_generate_smtp_data_no_secret(w) ==
    LET validate(d) ==
          IF ~SmtpRelationData_valid(d)
          THEN [exc |-> CharmConfigInvalidError, w |-> w, data |-> d]
          ELSE [exc |-> OK, w |-> w, data |-> d]
    IN  validate([host |-> config.host, port |-> config.port,
                  user |-> config.user,
                  password_id |-> None, password |-> config.password,
                  auth_type |-> config.auth_type,
                  transport_security |-> config.transport_security,
                  domain |-> config.domain,
                  skip_ssl_verify |-> config.skip_ssl_verify])

\* _generate_smtp_data that puts the password into the secret even when it
\* is empty.
_generate_smtp_data_any_password(w) ==
    LET password == config.password
        validate(e, d) ==
          IF e.exc # OK THEN [exc |-> e.exc, w |-> e.w, data |-> d]
          ELSE IF ~SmtpRelationData_valid(d)
          THEN [exc |-> CharmConfigInvalidError, w |-> e.w, data |-> d]
          ELSE [exc |-> OK, w |-> e.w, data |-> d]
        construct(e) ==
          validate(e, [host |-> config.host, port |-> config.port,
                       user |-> config.user,
                       password_id |-> e.id, password |-> password,
                       auth_type |-> config.auth_type,
                       transport_security |-> config.transport_security,
                       domain |-> config.domain,
                       skip_ssl_verify |-> config.skip_ssl_verify])
    IN  construct(IF _has_secrets
                  THEN _ensure_peer_secret(w, [password |-> password])
                  ELSE [exc |-> OK, w |-> w, id |-> None])

\* The secret is ensured first; the SmtpRelationData constructor validates
\* after that.
_generate_smtp_data(w) ==
    LET password == config.password
        validate(e, d) ==
          IF e.exc # OK THEN [exc |-> e.exc, w |-> e.w, data |-> d]
          ELSE IF ~SmtpRelationData_valid(d)
          THEN [exc |-> CharmConfigInvalidError, w |-> e.w, data |-> d]
          ELSE [exc |-> OK, w |-> e.w, data |-> d]
        construct(e) ==
          validate(e, [host |-> config.host, port |-> config.port,
                       user |-> config.user,
                       password_id |-> e.id, password |-> password,
                       auth_type |-> config.auth_type,
                       transport_security |-> config.transport_security,
                       domain |-> config.domain,
                       skip_ssl_verify |-> config.skip_ssl_verify])
    IN  construct(IF Truthy(password) /\ _has_secrets
                  THEN _ensure_peer_secret(w, [password |-> password])
                  ELSE [exc |-> OK, w |-> w, id |-> None])

\* The legacy pass without `new_data.password_id = None`.
_reconcile_smtp_legacy_relation_keep_id(w, relation) ==
    LET publish(g) ==
          IF g.exc # OK THEN [exc |-> g.exc, w |-> g.w]
          ELSE [exc |-> OK, w |-> update_relation_data(g.w, relation, g.data)]
    IN  publish(_generate_smtp_data(w))

_reconcile_smtp_legacy_relation(w, relation) ==
    LET publish(g) ==
          IF g.exc # OK THEN [exc |-> g.exc, w |-> g.w]
          ELSE [exc |-> OK,
                w |-> update_relation_data(g.w, relation,
                          [g.data EXCEPT !.password_id = None])]
    IN  publish(_generate_smtp_data(w))

RECURSIVE _reconcile_smtp_legacy_loop(_, _)
_reconcile_smtp_legacy_loop(w, rels) ==
    IF rels = <<>> THEN [exc |-> OK, w |-> w]
    ELSE LET continue(s) ==
               IF s.exc # OK THEN s
               ELSE _reconcile_smtp_legacy_loop(s.w, Tail(rels))
         IN  continue(_reconcile_smtp_legacy_relation(w, Head(rels)))

_reconcile_smtp_legacy(w) ==
    _reconcile_smtp_legacy_loop(w, model_relations(LEGACY_RELATION_NAME))

\* The modern pass without the grant.
_reconcile_smtp_relation_no_grant(w, relation) ==
    IF ~_has_secrets THEN [exc |-> CharmConfigInvalidError, w |-> w]
    ELSE
      LET publish(w2, new_data) ==
            [exc |-> OK, w |-> update_relation_data(w2, relation, new_data)]
          revoke_unused(w1, secret, new_data) ==
            publish(IF ~Truthy(new_data.password_id) /\ secret.id # None
                    THEN revoke(w1, secret.id, relation)
                    ELSE w1,
                    new_data)
          grant_used(g, secret) ==
            IF secret.exc # OK THEN [exc |-> secret.exc, w |-> g.w]
            ELSE revoke_unused(g.w, secret, g.data)
          generated(g) ==
            IF g.exc # OK THEN [exc |-> g.exc, w |-> g.w]
            ELSE grant_used(g, _get_peer_secret(g.w))
      IN  generated(_generate_smtp_data(w))

\* The modern pass without the revoke of an unused secret.
_reconcile_smtp_relation_no_revoke(w, relation) ==
    IF ~_has_secrets THEN [exc |-> CharmConfigInvalidError, w |-> w]
    ELSE
      LET publish(w2, new_data) ==
            [exc |-> OK, w |-> update_relation_data(w2, relation, new_data)]
          grant_used(g, secret) ==
            IF secret.exc # OK THEN [exc |-> secret.exc, w |-> g.w]
            ELSE publish(IF Truthy(g.data.password_id)
                         THEN grant(g.w, secret.id, relation)
                         ELSE g.w,
                         g.data)
          generated(g) ==
            IF g.exc # OK THEN [exc |-> g.exc, w |-> g.w]
            ELSE grant_used(g, _get_peer_secret(g.w))
      IN  generated(_generate_smtp_data(w))

\* The modern pass without the check that the host supports secrets.
_reconcile_smtp_relation_any_host(w, relation) ==
    LET publish(w2, new_data) ==
          [exc |-> OK, w |-> update_relation_data(w2, relation, new_data)]
        revoke_unused(w1, secret, new_data) ==
          publish(IF ~Truthy(new_data.password_id) /\ secret.id # None
                  THEN revoke(w1, secret.id, relation)
                  ELSE w1,
                  new_data)
        grant_used(g, secret) ==
          IF secret.exc # OK THEN [exc |-> secret.exc, w |-> g.w]
          ELSE revoke_unused(IF Truthy(g.data.password_id)
                             THEN grant(g.w, secret.id, relation)
                             ELSE g.w,
                             secret, g.data)
        generated(g) ==
          IF g.exc # OK THEN [exc |-> g.exc, w |-> g.w]
          ELSE grant_used(g, _get_peer_secret(g.w))
    IN  generated(_generate_smtp_data(w))

_reconcile_smtp_relation(w, relation) ==
    IF ~_has_secrets THEN [exc |-> CharmConfigInvalidError, w |-> w]
    ELSE
      LET publish(w2, new_data) ==
            [exc |-> OK, w |-> update_relation_data(w2, relation, new_data)]
          revoke_unused(w1, secret, new_data) ==
            publish(IF ~Truthy(new_data.password_id) /\ secret.id # None
                    THEN revoke(w1, secret.id, relation)
                    ELSE w1,
                    new_data)
          grant_used(g, secret) ==
            IF secret.exc # OK THEN [exc |-> secret.exc, w |-> g.w]
            ELSE revoke_unused(IF Truthy(g.data.password_id)
                               THEN grant(g.w, secret.id, relation)
                               ELSE g.w,
                               secret, g.data)
          generated(g) ==
            IF g.exc # OK THEN [exc |-> g.exc, w |-> g.w]
            ELSE grant_used(g, _get_peer_secret(g.w))
      IN  generated(_generate_smtp_data(w))

RECURSIVE _reconcile_smtp_loop(_, _)
_reconcile_smtp_loop(w, rels) ==
    IF rels = <<>> THEN [exc |-> OK, w |-> w]
    ELSE LET continue(s) ==
               IF s.exc # OK THEN s
               ELSE _reconcile_smtp_loop(s.w, Tail(rels))
         IN  continue(_reconcile_smtp_relation(w, Head(rels)))

_reconcile_smtp(w) ==
    _reconcile_smtp_loop(w, model_relations(DEFAULT_RELATION_NAME))

\* _reconcile without its leadership check.
_reconcile_any_unit(w) ==
    LET modern(l) == IF l.exc # OK THEN l ELSE _reconcile_smtp(l.w)
        legacy(g) ==
          IF g.exc # OK THEN [exc |-> g.exc, w |-> g.w]
          ELSE modern(_reconcile_smtp_legacy(g.w))
    IN  legacy(_generate_smtp_data(w))

\* _reconcile that goes through the modern relations before the legacy ones.
_reconcile_modern_first(w) ==
    IF ~is_leader THEN [exc |-> OK, w |-> w]
    ELSE
      LET legacy(m) == IF m.exc # OK THEN m ELSE _reconcile_smtp_legacy(m.w)
          modern(g) ==
            IF g.exc # OK THEN [exc |-> g.exc, w |-> g.w]
            ELSE legacy(_reconcile_smtp(g.w))
      IN  modern(_generate_smtp_data(w))

\* Leader only: the sanity call of _generate_smtp_data, then the legacy
\* relations, then the modern ones.
_reconcile(w) ==
    IF ~is_leader THEN [exc |-> OK, w |-> w]
    ELSE
      LET modern(l) == IF l.exc # OK THEN l ELSE _reconcile_smtp(l.w)
          legacy(g) ==
            IF g.exc # OK THEN [exc |-> g.exc, w |-> g.w]
            ELSE modern(_reconcile_smtp_legacy(g.w))
      IN  legacy(_generate_smtp_data(w))

\* What a hook leaves behind: the writes of a handler that returned, and
\* nothing but the error status when it let an exception escape.
hook(w, r, status) ==
    [w |-> IF status = "error" THEN w ELSE r.w, status |-> status]

\* try/except of _reconcile_event: the status the handler ends with.
reconcile_event(w) ==
    LET handled(r) ==
          hook(w, r, CASE r.exc = OK -> "active"
                       [] r.exc = CharmConfigInvalidError -> "blocked"
                       [] r.exc = NotReadyError -> "waiting"
                       [] OTHER -> "error")
    IN  handled(_reconcile(w))

\* The relation-broken handler without the revoke.
relation_broken_no_revoke(w, relation) ==
    IF ~is_leader THEN [exc |-> OK, w |-> w]
    ELSE LET revoked(secret) == [exc |-> secret.exc, w |-> w]
         IN  revoked(_get_peer_secret(w))

relation_broken(w, relation) ==
    IF ~is_leader THEN [exc |-> OK, w |-> w]
    ELSE LET revoked(secret) ==
               IF secret.exc # OK THEN [exc |-> secret.exc, w |-> w]
               ELSE IF secret.id # None
               THEN [exc |-> OK, w |-> revoke(w, secret.id, relation)]
               ELSE [exc |-> OK, w |-> w]
         IN  revoked(_get_peer_secret(w))

\* The handler has no try/except and leaves the unit status alone.
on_relation_broken(w, relation) ==
    LET handled(r) == hook(w, r, IF r.exc = OK THEN unit_status ELSE "error")
    IN  handled(relation_broken(w, relation))

\* ------------------------------------------------------------------ state
\* `last` of a state that an environment step produced.
EnvStep == [kind |-> "env", relation |-> 0, was_leader |-> FALSE,
            pre |-> EmptyWorld]

Init ==
    /\ config \in Configs
    /\ is_leader \in BOOLEAN
    /\ unit_status = "maintenance"
    /\ has_secrets \in BOOLEAN
    /\ peer_relation = FALSE
    /\ created = {}
    /\ relations = {}
    /\ relation_data = [r \in RelIds |-> EmptyDict]
    /\ peer_data = EmptyDict
    /\ secrets = EmptyDict
    /\ smtp_data_available = <<>>
    /\ last = EnvStep

Commit(h) ==
    /\ relation_data' = h.w.data
    /\ peer_data' = h.w.peer
    /\ secrets' = h.w.secrets
    /\ unit_status' = h.status

\* config-changed, the peer relation's created and changed events and the
\* relation-created events of both endpoints all run this one handler, which
\* does not look at the event.
_reconcile_event ==
    /\ Commit(reconcile_event(World))
    /\ last' = [kind |-> "reconcile", relation |-> 0, was_leader |-> is_leader,
                pre |-> World]
    /\ UNCHANGED smtp_data_available
    /\ UNCHANGED <<config, is_leader, has_secrets, peer_relation, created,
                   relations>>

\* relation-broken is the last event of a relation: once the hook has
\* completed, the runtime drops the relation together with its data-bag.
_on_relation_broken(relation) ==
    /\ relation \in ModernIds \cap relations
    /\ LET dropped(h) ==
             IF h.status = "error"
             THEN Commit(h) /\ UNCHANGED relations
             ELSE /\ Commit([h EXCEPT !.w.data[relation] = EmptyDict])
                  /\ relations' = relations \ {relation}
       IN  dropped(on_relation_broken(World, relation))
    /\ last' = [kind |-> "relation_broken", relation |-> relation,
                was_leader |-> is_leader, pre |-> World]
    /\ UNCHANGED smtp_data_available
    /\ UNCHANGED <<config, is_leader, has_secrets, peer_relation, created>>

\* ------------------------------------------------------------ environment
\* The operator sets one configuration option.  A password change is allowed
\* only while the secret can still take another revision.
RevisionsLeft ==
    \A id \in DOMAIN secrets : Len(secrets[id].revisions) < MaxRevisions

SetConfig(c) ==
    /\ Cardinality({k \in DOMAIN c : c[k] # config[k]}) = 1
    /\ (c.password # config.password /\ Truthy(c.password)) => RevisionsLeft
    /\ config' = c
    /\ last' = EnvStep
    /\ UNCHANGED smtp_data_available
    /\ UNCHANGED <<is_leader, unit_status, has_secrets, peer_relation, created,
                   relations, relation_data, peer_data, secrets>>

LeaderChange ==
    /\ is_leader' = ~is_leader
    /\ last' = EnvStep
    /\ UNCHANGED smtp_data_available
    /\ UNCHANGED <<config, unit_status, has_secrets, peer_relation, created,
                   relations, relation_data, peer_data, secrets>>

PeerRelationCreated ==
    /\ ~peer_relation
    /\ peer_relation' = TRUE
    /\ last' = EnvStep
    /\ UNCHANGED smtp_data_available
    /\ UNCHANGED <<config, is_leader, unit_status, has_secrets, created,
                   relations, relation_data, peer_data, secrets>>

\* Relation ids are handed out in increasing order on each endpoint.
RelationCreated(r) ==
    /\ r \notin created
    /\ \A q \in created : (q \in LegacyIds <=> r \in LegacyIds) => q < r
    /\ created' = created \cup {r}
    /\ relations' = relations \cup {r}
    /\ last' = EnvStep
    /\ UNCHANGED smtp_data_available
    /\ UNCHANGED <<config, is_leader, unit_status, has_secrets, peer_relation,
                   relation_data, peer_data, secrets>>

Next ==
    \/ _reconcile_event
    \/ \E r \in ModernIds : _on_relation_broken(r)
    \/ \E c \in Configs : SetConfig(c)
    \/ LeaderChange
    \/ PeerRelationCreated
    \/ \E r \in RelIds : RelationCreated(r)

Spec == Init /\ [][Next]_vars

\* ------------------------------------------------------ e-mail addresses
\* Position of the first occurrence of the character c in s, 0 when absent.
find(s, c) ==
    IF \E i \in 1..Len(s) : SubSeq(s, i, i) = c
    THEN CHOOSE i \in 1..Len(s) :
            /\ SubSeq(s, i, i) = c
            /\ \A j \in 1..(i - 1) : SubSeq(s, j, j) # c
    ELSE 0

\* str.split(c)
RECURSIVE split(_, _)
split(s, c) ==
    IF find(s, c) = 0 THEN <<s>>
    ELSE <<SubSeq(s, 1, find(s, c) - 1)>>
            \o split(SubSeq(s, find(s, c) + 1, Len(s)), c)

\* A syntactically valid address: one "@", a local part, and a domain of at
\* least two non-empty labels.
validate_email(s) ==
    /\ Len(split(s, "@")) = 2
    /\ Len(split(s, "@")[1]) >= 1
    /\ Len(split(split(s, "@")[2], ".")) >= 2
    /\ \A i \in 1..Len(split(split(s, "@")[2], ".")) :
          Len(split(split(s, "@")[2], ".")[i]) >= 1

\* The comma-separated form of the recipients option.
parse_recipients(value) ==
    IF ~Truthy(value) THEN <<>> ELSE split(value, ",")

\* ------------------------------------------------------ secret references
\* The model uuid (None when the reference has none) and the id of a secret
\* reference, without the scheme.
secret_uri_parts(uri) ==
    LET parts(body) ==
          IF Len(split(body, "/")) = 2
          THEN [model |-> split(body, "/")[1], id |-> split(body, "/")[2]]
          ELSE [model |-> None, id |-> body]
        authority(rest) ==
          parts(IF Len(rest) >= 2 /\ SubSeq(rest, 1, 2) = "//"
                THEN SubSeq(rest, 3, Len(rest))
                ELSE rest)
    IN  authority(IF Len(uri) >= 7 /\ SubSeq(uri, 1, 7) = "secret:"
                  THEN SubSeq(uri, 8, Len(uri))
                  ELSE uri)

\* _secret_uri_equal that compares the text of the references.
_secret_uri_equal_same_text(left, right) == left = right

\* Two references denote the same secret: equal ids, and equal model uuids
\* when both carry one.
_secret_uri_equal(left, right) ==
    /\ secret_uri_parts(left).id = secret_uri_parts(right).id
    /\ \/ secret_uri_parts(left).model = None
       \/ secret_uri_parts(right).model = None
       \/ secret_uri_parts(left).model = secret_uri_parts(right).model

\* The references of test_secret_uri_equal: two ids, none or one of two model
\* uuids, with and without the scheme and the double slash.
SecretIds == {"d2rhncfmp25c765918hg", "d3rhncfmp25c765918hg"}
ModelUuids ==
    {"d41591b7-fa4d-4b2b-8ae2-d6015d5677da",
     "d41591b7-fa4d-4b2b-8ae2-d6015d5677db"}

SecretUris ==
    UNION {{"secret://" \o id, "secret:" \o id, id} : id \in SecretIds}
    \cup UNION {{"secret://" \o m \o "/" \o id, "secret:" \o m \o "/" \o id} :
                    m \in ModelUuids, id \in SecretIds}

\* The function is called on a pair of references; nothing else happens.
UriInit ==
    /\ config = MINIMAL_CONFIG
    /\ is_leader = FALSE
    /\ unit_status = "maintenance"
    /\ has_secrets = TRUE
    /\ peer_relation = FALSE
    /\ created = {}
    /\ relations = {}
    /\ relation_data = [r \in RelIds |-> EmptyDict]
    /\ peer_data = EmptyDict
    /\ secrets = EmptyDict
    /\ smtp_data_available = <<>>
    /\ last \in [kind : {"input"}, left : SecretUris, right : SecretUris]

secret_uri_equal ==
    /\ last.kind = "input"
    /\ last' = [kind |-> "secret_uri_equal",
                left |-> last.left, right |-> last.right,
                result |-> _secret_uri_equal(last.left, last.right)]
    /\ UNCHANGED smtp_data_available
    /\ UNCHANGED <<config, is_leader, unit_status, has_secrets, peer_relation,
                   created, relations, relation_data, peer_data, secrets>>

UriNext == secret_uri_equal

UriSpec == UriInit /\ [][UriNext]_vars

\* --------------------------------------------- wider configuration inputs
\* The options the tests set, one of them away from the minimal
\* configuration at a time; the password is set or not independently.
MINIMAL_CHARM_CONFIG ==
    [host |-> "smtp.example", port |-> 25, user |-> None, password |-> None,
     auth_type |-> "none", transport_security |-> "none", domain |-> None,
     skip_ssl_verify |-> FALSE, password_secret |-> None,
     smtp_sender |-> None, recipients |-> None]

InputPorts == {0, 1, 25, 65536, 65537}
InputAuthTypes == {"none", "plain", "nonexisting"}
InputTransportSecurities == {"none", "tls", "nonexisting"}
InputPasswordSecrets == {None, "secret:missing", "secret:user"}
InputSenders == {None, "no-reply@example.com", "not-an-email"}
InputRecipients ==
    {None, "a@x.com,b@y.com", "a@x.com,not-an-email", "not-an-email,a@x.com"}

InputConfigs ==
    {c \in [host : Hosts, port : InputPorts, user : Users,
            password : {None, "secret123"}, auth_type : InputAuthTypes,
            transport_security : InputTransportSecurities, domain : Domains,
            skip_ssl_verify : {FALSE}, password_secret : InputPasswordSecrets,
            smtp_sender : InputSenders, recipients : InputRecipients] :
        Cardinality({k \in DOMAIN c \ {"password"} :
                        c[k] # MINIMAL_CHARM_CONFIG[k]}) <= 1}

\* A secret of the operator whose content has no password key.
UserSecrets ==
    "secret:user" :> [revisions |-> <<[invalid |-> "value"]>>, grants |-> {}]

ConfigInit ==
    /\ config \in InputConfigs
    /\ is_leader \in BOOLEAN
    /\ unit_status = "maintenance"
    /\ has_secrets \in BOOLEAN
    /\ peer_relation = FALSE
    /\ created = {}
    /\ relations = {}
    /\ relation_data = [r \in RelIds |-> EmptyDict]
    /\ peer_data = EmptyDict
    /\ secrets = UserSecrets
    /\ smtp_data_available = <<>>
    /\ last = EnvStep

ConfigNext ==
    \/ _reconcile_event
    \/ \E r \in ModernIds : _on_relation_broken(r)
    \/ \E c \in InputConfigs : SetConfig(c)
    \/ LeaderChange
    \/ PeerRelationCreated
    \/ \E r \in RelIds : RelationCreated(r)

ConfigSpec == ConfigInit /\ [][ConfigNext]_vars

\* ------------------------------------------------------- secret store reset
\* The secret store is reset from outside the charm: the secrets are gone
\* while the peer data-bag still records the id of one of them.
SecretStoreReset ==
    /\ secrets # EmptyDict
    /\ secrets' = EmptyDict
    /\ last' = EnvStep
    /\ UNCHANGED smtp_data_available
    /\ UNCHANGED <<config, is_leader, unit_status, has_secrets, peer_relation,
                   created, relations, relation_data, peer_data>>

StoreNext ==
    \/ _reconcile_event
    \/ \E r \in ModernIds : _on_relation_broken(r)
    \/ \E c \in Configs : SetConfig(c)
    \/ LeaderChange
    \/ PeerRelationCreated
    \/ \E r \in RelIds : RelationCreated(r)
    \/ SecretStoreReset

StoreSpec == Init /\ [][StoreNext]_vars

\* ---------------------------------------------------------------- requirer
\* The requirer library runs in a unit of the application at the other end
\* of the relation: relation_data[r] is then relation.data[relation.app], the
\* data-bag the provider application wrote, and secrets holds the secrets of
\* the providers.

\* dict.get
get(bag, k) == IF k \in DOMAIN bag THEN bag[k] ELSE None

\* int() of a decimal string, read digit by digit.
digit(c) == CHOOSE d \in 0..9 : ToString(d) = c

RECURSIVE int(_)
int(s) ==
    IF Len(s) = 1 THEN digit(s)
    ELSE 10 * int(SubSeq(s, 1, Len(s) - 1)) + digit(SubSeq(s, Len(s), Len(s)))

\* SmtpDataAvailableEvent: the properties read the data-bag of the relation.
SmtpDataAvailableEvent(relation) == [relation |-> relation]

SmtpDataAvailableEvent_host(event) ==
    get(relation_data[event.relation], "host")

SmtpDataAvailableEvent_port(event) ==
    int(get(relation_data[event.relation], "port"))

\* The user property with the empty string as default.
SmtpDataAvailableEvent_user_or_empty(event) ==
    IF "user" \in DOMAIN relation_data[event.relation]
    THEN relation_data[event.relation]["user"]
    ELSE ""

SmtpDataAvailableEvent_user(event) ==
    get(relation_data[event.relation], "user")

SmtpDataAvailableEvent_password(event) ==
    get(relation_data[event.relation], "password")

SmtpDataAvailableEvent_auth_type(event) ==
    get(relation_data[event.relation], "auth_type")

SmtpDataAvailableEvent_transport_security(event) ==
    get(relation_data[event.relation], "transport_security")

SmtpDataAvailableEvent_domain(event) ==
    get(relation_data[event.relation], "domain")

\* SmtpRequires._on_relation_changed that emits on the leader unit only.
relation_changed_leader_only(relation) ==
    IF is_leader /\ relation_data[relation] # EmptyDict
    THEN <<SmtpDataAvailableEvent(relation)>>
    ELSE <<>>

\* SmtpRequires._on_relation_changed: the events the handler emits.
relation_changed(relation) ==
    IF relation_data[relation] # EmptyDict
    THEN <<SmtpDataAvailableEvent(relation)>>
    ELSE <<>>

_on_relation_changed(relation) ==
    /\ relation \in relations
    /\ smtp_data_available' = relation_changed(relation)
    /\ last' = [kind |-> "relation_changed", relation |-> relation,
                was_leader |-> is_leader, pre |-> World]
    /\ UNCHANGED <<config, is_leader, unit_status, has_secrets, peer_relation,
                   created, relations, relation_data, peer_data, secrets>>

\* secret-changed is dispatched to the unit; SmtpRequires observes
\* relation_changed only, so no handler of the library runs.
secret_changed(secret) ==
    /\ secret \in DOMAIN secrets
    /\ smtp_data_available' = <<>>
    /\ last' = [kind |-> "secret_changed", relation |-> 0,
                was_leader |-> is_leader, pre |-> World, secret |-> secret]
    /\ UNCHANGED <<config, is_leader, unit_status, has_secrets, peer_relation,
                   created, relations, relation_data, peer_data, secrets>>

\* Data-bags a provider application may hold.
SAMPLE_LEGACY_RELATION_DATA ==
    [host |-> "example.smtp", port |-> "25", user |-> "example_user",
     auth_type |-> "plain", transport_security |-> "tls", domain |-> "domain",
     skip_ssl_verify |-> "False", password |-> "somepassword"]

INVALID_RELATION_DATA ==
    [port |-> "25", user |-> "example_user", password |-> "somepassword",
     auth_type |-> "plain", transport_security |-> "tls", domain |-> "domain",
     skip_ssl_verify |-> "False"]

SAMPLE_RELATION_DATA ==
    [host |-> "example.smtp", port |-> "587", user |-> "example_user",
     auth_type |-> "none", transport_security |-> "none", domain |-> "domain",
     skip_ssl_verify |-> "False"]

\* Data-bags with a host and one field that does not decode.
MALFORMED_PORT_RELATION_DATA ==
    [SAMPLE_LEGACY_RELATION_DATA EXCEPT !.port = "smtp"]

MALFORMED_AUTH_TYPE_RELATION_DATA ==
    [SAMPLE_LEGACY_RELATION_DATA EXCEPT !.auth_type = "nonexisting"]

PasswordIds == {"secret:1", "secret://1", "secret:2"}

\* A reference to a secret that the model does not hold.
MISSING_PASSWORD_ID == "secret://missing-id"

RemoteBags(relation) ==
    IF relation \in LegacyIds
    THEN {EmptyDict, INVALID_RELATION_DATA, SAMPLE_LEGACY_RELATION_DATA,
          MALFORMED_PORT_RELATION_DATA, MALFORMED_AUTH_TYPE_RELATION_DATA}
    ELSE {EmptyDict, SAMPLE_RELATION_DATA}
            \cup {update(SAMPLE_RELATION_DATA, "password_id" :> id) :
                     id \in PasswordIds \cup {MISSING_PASSWORD_ID}}

RemoteSecrets ==
    [id \in {"secret:1", "secret:2"} |->
        [revisions |-> <<[password |-> "secret123"]>>, grants |-> RelIds]]

\* The provider application writes its data-bag.
RemoteUpdate(relation, bag) ==
    /\ relation \in relations
    /\ bag # relation_data[relation]
    /\ relation_data' = [relation_data EXCEPT ![relation] = bag]
    /\ last' = EnvStep
    /\ UNCHANGED <<config, is_leader, unit_status, has_secrets, peer_relation,
                   created, relations, peer_data, secrets,
                   smtp_data_available>>

RequirerInit ==
    /\ config = MINIMAL_CHARM_CONFIG
    /\ is_leader \in BOOLEAN
    /\ unit_status = "maintenance"
    /\ has_secrets = TRUE
    /\ peer_relation = FALSE
    /\ created = {}
    /\ relations = {}
    /\ relation_data = [r \in RelIds |-> EmptyDict]
    /\ peer_data = EmptyDict
    /\ secrets = RemoteSecrets
    /\ smtp_data_available = <<>>
    /\ last = EnvStep

RequirerNext ==
    \/ \E r \in RelIds : _on_relation_changed(r)
    \/ \E id \in DOMAIN RemoteSecrets : secret_changed(id)
    \/ \E r \in RelIds : \E bag \in RemoteBags(r) : RemoteUpdate(r, bag)
    \/ LeaderChange
    \/ \E r \in RelIds : RelationCreated(r)

RequirerSpec == RequirerInit /\ [][RequirerNext]_vars

\* ------------------------------------------------------------------- codec
\* SmtpRelationData instances: the values of the library tests, each
\* optional field also unset and empty.
BundlePorts == {0, 25, 587, 65536}

Bundles ==
    {d \in [host : {"example.smtp"}, port : BundlePorts,
            user : {None, "", "example_user"},
            password : {None, "", "somepassword"},
            password_id : {None, "secret:1"},
            auth_type : {"none", "plain"},
            transport_security : {"none", "tls"},
            domain : {None, "", "domain"},
            skip_ssl_verify : BOOLEAN] : SmtpRelationData_valid(d)}

\* The relation of each endpoint that the codec is exercised on.
LegacyRelation == 1
ModernRelation == MaxLegacy + 1

CodecInit ==
    /\ config \in Bundles
    /\ is_leader = TRUE
    /\ unit_status = "maintenance"
    /\ has_secrets = TRUE
    /\ peer_relation = FALSE
    /\ created = {LegacyRelation, ModernRelation}
    /\ relations = {LegacyRelation, ModernRelation}
    /\ relation_data = [r \in RelIds |-> EmptyDict]
    /\ peer_data = EmptyDict
    /\ secrets = EmptyDict
    /\ smtp_data_available = <<>>
    /\ last = EnvStep

\* The provider publishes the bundle to the legacy relation: password_id is
\* cleared before the data-bag is updated.
encode_legacy ==
    /\ relation_data' =
          update_relation_data(World, LegacyRelation,
                               [config EXCEPT !.password_id = None]).data
    /\ last' = [kind |-> "encode_legacy", relation |-> LegacyRelation,
                was_leader |-> is_leader, pre |-> World]
    /\ UNCHANGED smtp_data_available
    /\ UNCHANGED <<config, is_leader, unit_status, has_secrets, peer_relation,
                   created, relations, peer_data, secrets>>

\* The provider publishes the bundle to the modern relation.
encode_modern ==
    /\ relation_data' =
          update_relation_data(World, ModernRelation, config).data
    /\ last' = [kind |-> "encode_modern", relation |-> ModernRelation,
                was_leader |-> is_leader, pre |-> World]
    /\ UNCHANGED smtp_data_available
    /\ UNCHANGED <<config, is_leader, unit_status, has_secrets, peer_relation,
                   created, relations, peer_data, secrets>>

\* The requirer at the other end handles relation-changed and reads the
\* fields back through the event.
CodecNext ==
    \/ encode_legacy
    \/ encode_modern
    \/ \E r \in RelIds : _on_relation_changed(r)

CodecSpec == CodecInit /\ [][CodecNext]_vars

\* ----------------------------------------------------------------- claims
\* The state is the one a handler has just left.
Reconciled == last.kind = "reconcile"
LeaderReconciled == Reconciled /\ last.was_leader
RelationBroken == last.kind = "relation_broken"

ConfigValid == SmtpRelationData_valid(config)

SameData(rels) == \A r \in rels : relation_data[r] = last.pre.data[r]

\* C1: a handler that runs on a unit that is not the leader leaves the
\* data-bag of every relation, the peer data-bag and the secret store as
\* they were, for valid and for invalid configuration.
C1_NonLeaderWritesNothing ==
    ((Reconciled \/ RelationBroken) /\ ~last.was_leader) =>
        /\ SameData(relations)
        /\ peer_data = last.pre.peer
        /\ secrets = last.pre.secrets

C1_Witness ==
    /\ Reconciled /\ ~last.was_leader
    /\ ConfigValid /\ Truthy(config.password) /\ has_secrets /\ peer_relation
    /\ LegacyIds \cap relations # {} /\ ModernIds \cap relations # {}

\* C2: a leader pass that directly follows a leader pass, with nothing
\* changed in between, changes no data-bag, secret, grant or peer entry.
C2_ReconcileIdempotent ==
    LeaderReconciled => reconcile_event(World).w = World

C2_Witness ==
    /\ LeaderReconciled /\ unit_status = "active"
    /\ Truthy(config.password) /\ has_secrets
    /\ LegacyIds \cap relations # {} /\ ModernIds \cap relations # {}
    /\ World # last.pre

\* C3: a leader pass over a configuration that fails validation leaves the
\* data-bags, the peer data-bag and the secret store as they were and ends
\* in blocked status, also when a password is configured.
C3_InvalidConfigTouchesNothing ==
    (LeaderReconciled /\ ~ConfigValid /\ peer_relation) =>
        /\ SameData(RelIds)
        /\ peer_data = last.pre.peer
        /\ secrets = last.pre.secrets
        /\ unit_status = "blocked"

\* The secret the peer data-bag records.
Recorded(peer) == "secret-id" \in DOMAIN peer
PeerSecret == secrets[peer_data["secret-id"]]
PrePeerSecret == last.pre.secrets[last.pre.peer["secret-id"]]
Desired == [password |-> config.password]

\* C4: the data-bag of a modern relation never holds the key password.
C4_ModernNeverCarriesPassword ==
    \A r \in ModernIds : "password" \notin DOMAIN relation_data[r]

C4_Witness ==
    /\ Truthy(config.password)
    /\ \E r \in ModernIds \cap relations :
          /\ "host" \in DOMAIN relation_data[r]
          /\ "password_id" \in DOMAIN relation_data[r]
    /\ \E r \in LegacyIds \cap relations :
          "password" \in DOMAIN relation_data[r]

\* C5: after a successful leader pass with a password and secret support,
\* every modern relation publishes the recorded secret id, the secret's
\* latest content is the configured password, and the relation is granted.
C5_ModernPublishesGrantedSecret ==
    (LeaderReconciled /\ unit_status = "active" /\ Truthy(config.password)
        /\ has_secrets) =>
        \A r \in ModernIds \cap relations :
            /\ Recorded(peer_data)
            /\ "password_id" \in DOMAIN relation_data[r]
            /\ relation_data[r]["password_id"] = peer_data["secret-id"]
            /\ latest_content(PeerSecret) = Desired
            /\ r \in PeerSecret.grants

C5_Witness ==
    /\ LeaderReconciled /\ unit_status = "active" /\ Truthy(config.password)
    /\ has_secrets
    /\ ModernIds \subseteq relations
    /\ Recorded(last.pre.peer)
    /\ \E r \in ModernIds : r \notin PrePeerSecret.grants

\* A leader pass that found the recorded secret holding another password.
PasswordChanged ==
    /\ LeaderReconciled /\ has_secrets /\ Truthy(config.password)
    /\ Recorded(last.pre.peer)
    /\ latest_content(PrePeerSecret) # Desired

\* C6: with a secret recorded, a leader pass after the password changed to
\* another non-empty value keeps the recorded id and every published
\* password_id, and the secret's latest content becomes the new password.
C6_PasswordChangeKeepsSecretId ==
    PasswordChanged =>
        /\ Recorded(peer_data)
        /\ peer_data["secret-id"] = last.pre.peer["secret-id"]
        /\ \A r \in ModernIds \cap relations :
              "password_id" \in DOMAIN last.pre.data[r] =>
                 /\ "password_id" \in DOMAIN relation_data[r]
                 /\ relation_data[r]["password_id"]
                        = last.pre.data[r]["password_id"]
        /\ latest_content(PeerSecret) = Desired

C6_Witness ==
    /\ PasswordChanged /\ unit_status = "active"
    /\ \E r \in ModernIds \cap relations :
          "password_id" \in DOMAIN last.pre.data[r]

\* A leader pass that found the recorded secret holding the password.
PasswordSame ==
    /\ LeaderReconciled /\ Recorded(last.pre.peer)
    /\ latest_content(PrePeerSecret) = Desired

\* C7: a leader pass whose password equals the recorded secret's content
\* adds no revision to the secret, whatever else the pass writes.
C7_SamePasswordAddsNoRevision ==
    PasswordSame =>
        /\ Recorded(peer_data)
        /\ peer_data["secret-id"] = last.pre.peer["secret-id"]
        /\ PeerSecret.revisions = PrePeerSecret.revisions

C7_Witness ==
    /\ PasswordSame /\ unit_status = "active"
    /\ ModernIds \subseteq relations
    /\ \E r \in RelIds : relation_data[r] # last.pre.data[r]
    /\ \E r \in RelIds :
          /\ "host" \in DOMAIN last.pre.data[r]
          /\ relation_data[r] = last.pre.data[r]

\* The leader handled relation-broken while a secret id was recorded.
LeaderBroke ==
    /\ RelationBroken /\ last.was_leader /\ Recorded(last.pre.peer)

\* C8: after the leader handled relation-broken of a modern relation with a
\* secret recorded, the relation holds no grant; the secret's revisions and
\* the grants of the other relations are as before.
C8_BrokenRelationIsRevoked ==
    LeaderBroke =>
        /\ Recorded(peer_data)
        /\ peer_data = last.pre.peer
        /\ last.relation \notin PeerSecret.grants
        /\ PeerSecret.revisions = PrePeerSecret.revisions
        /\ PeerSecret.grants \ {last.relation}
              = PrePeerSecret.grants \ {last.relation}
        /\ DOMAIN secrets = DOMAIN last.pre.secrets

C8_Witness ==
    /\ LeaderBroke
    /\ last.relation \in PrePeerSecret.grants
    /\ PeerSecret.grants # {}

\* C9: after a successful leader pass with no password configured, no legacy
\* data-bag holds password and no data-bag holds password_id, whatever was
\* published to the relation before.
C9_NoPasswordLeavesNoCredentialKeys ==
    (LeaderReconciled /\ unit_status = "active" /\ ~Truthy(config.password)) =>
        /\ \A r \in LegacyIds \cap relations :
              "password" \notin DOMAIN relation_data[r]
        /\ \A r \in relations : "password_id" \notin DOMAIN relation_data[r]

\* C10: the data-bag of a legacy relation never holds the key password_id.
C10_LegacyNeverCarriesPasswordId ==
    \A r \in LegacyIds : "password_id" \notin DOMAIN relation_data[r]

C10_Witness ==
    /\ Truthy(config.password) /\ Recorded(peer_data)
    /\ \E r \in LegacyIds \cap relations :
          "password" \in DOMAIN relation_data[r]
    /\ \E r \in ModernIds \cap relations :
          "password_id" \in DOMAIN relation_data[r]

\* C11: after a successful leader pass the data-bag of every existing
\* relation of both endpoints holds host, port (as decimal string), auth_type
\* and transport_security of the current configuration, and a legacy data-bag
\* holds the configured password when it is not empty.
C11_ReconcilePublishesConfig ==
    (LeaderReconciled /\ unit_status = "active") =>
        \A r \in relations :
            /\ {"host", "port", "auth_type", "transport_security"}
                   \subseteq DOMAIN relation_data[r]
            /\ relation_data[r]["host"] = config.host
            /\ relation_data[r]["port"] = ToString(config.port)
            /\ relation_data[r]["auth_type"] = config.auth_type
            /\ relation_data[r]["transport_security"] = config.transport_security
            /\ (r \in LegacyIds /\ Truthy(config.password)) =>
                  /\ "password" \in DOMAIN relation_data[r]
                  /\ relation_data[r]["password"] = config.password

C11_Witness ==
    /\ LeaderReconciled /\ unit_status = "active" /\ Truthy(config.password)
    /\ ModernIds \cap relations # {}
    /\ \E r \in ModernIds \cap relations : last.pre.data[r] = EmptyDict
    /\ \E r \in LegacyIds \cap relations :
          /\ "password" \in DOMAIN last.pre.data[r]
          /\ last.pre.data[r]["password"] # config.password

\* The pass of the handler that ran last, evaluated on the state it found.
PassOutcome == _reconcile(last.pre).exc

\* C12: on the leader, a reconcile event over a configuration without host,
\* or with an auth_type or transport_security outside its enumeration, ends
\* in blocked status; a reconcile event whose pass does not raise ends in
\* active status.
C12_StatusFollowsValidation ==
    LeaderReconciled =>
        /\ (\/ ~Truthy(config.host)
            \/ config.auth_type \notin AuthType
            \/ config.transport_security \notin TransportSecurity)
              => unit_status = "blocked"
        /\ PassOutcome = OK => unit_status = "active"

\* C13: a leader reconcile event with a port outside 1..65536 ends in
\* blocked status and writes no relation data-bag; the ports 1 and 65536 do
\* not make the configuration invalid.
C13_PortRangeIsValidated ==
    LeaderReconciled =>
        /\ (config.port < 1 \/ config.port > 65536) =>
              (unit_status = "blocked" /\ SameData(RelIds))
        /\ (config.port \in {1, 65536} /\ Truthy(config.host)
              /\ config.auth_type \in AuthType
              /\ config.transport_security \in TransportSecurity) =>
              _generate_smtp_data(last.pre).exc # CharmConfigInvalidError

\* The password_secret option names a secret that does not resolve, or one
\* whose content has no password key.
PasswordSecretUnusable ==
    /\ Truthy(config.password_secret)
    /\ \/ config.password_secret \notin DOMAIN secrets
       \/ "password" \notin
              DOMAIN latest_content(secrets[config.password_secret])

\* C14: with a password_secret that does not resolve or whose content has no
\* password key, the leader reconcile event ends in blocked status and
\* publishes nothing to any relation data-bag.
C14_UnusablePasswordSecretBlocks ==
    (LeaderReconciled /\ PasswordSecretUnusable) =>
        (unit_status = "blocked" /\ SameData(RelIds))

\* The sender or one of the recipients is not a valid address.
EmailsInvalid ==
    \/ Truthy(config.smtp_sender) /\ ~validate_email(config.smtp_sender)
    \/ \E i \in 1..Len(parse_recipients(config.recipients)) :
          ~validate_email(parse_recipients(config.recipients)[i])

\* C15: with a sender that is not a valid address, or a recipients list with
\* an invalid address at any position, the leader reconcile event ends in
\* blocked status and writes no relation data-bag.
C15_InvalidEmailsBlock ==
    (LeaderReconciled /\ EmailsInvalid) =>
        (unit_status = "blocked" /\ SameData(RelIds))

\* The requirer library handled relation-changed of last.relation.
RelationChanged == last.kind = "relation_changed"
ChangedBag == relation_data[last.relation]

\* C16: on the requirer, relation-changed over a remote data-bag without the
\* key host (empty, or holding other keys) emits no smtp_data_available.
C16_NoHostEmitsNothing ==
    (RelationChanged /\ "host" \notin DOMAIN ChangedBag) =>
        smtp_data_available = <<>>

\* The data-bag decodes: the required keys are there and the enums are known.
IsDecimal(s) ==
    /\ Len(s) >= 1
    /\ \A i \in 1..Len(s) :
          SubSeq(s, i, i) \in {ToString(d) : d \in 0..9}

BagValid(bag) ==
    /\ {"host", "port", "auth_type", "transport_security"} \subseteq DOMAIN bag
    /\ Len(bag["host"]) >= 1
    /\ IsDecimal(bag["port"])
    /\ bag["auth_type"] \in AuthType
    /\ bag["transport_security"] \in TransportSecurity

\* C17: on the requirer, relation-changed over a valid data-bag emits exactly
\* one smtp_data_available for that relation, on leader and non-leader units,
\* and the event's fields are the values of the data-bag, port as integer.
C17_ValidBagEmitsOneEvent ==
    (RelationChanged /\ BagValid(ChangedBag)) =>
        /\ Len(smtp_data_available) = 1
        /\ smtp_data_available[1].relation = last.relation
        /\ SmtpDataAvailableEvent_host(smtp_data_available[1])
              = ChangedBag["host"]
        /\ SmtpDataAvailableEvent_port(smtp_data_available[1]) \in 1..65536
        /\ ToString(SmtpDataAvailableEvent_port(smtp_data_available[1]))
              = ChangedBag["port"]
        /\ SmtpDataAvailableEvent_user(smtp_data_available[1])
              = get(ChangedBag, "user")
        /\ SmtpDataAvailableEvent_password(smtp_data_available[1])
              = get(ChangedBag, "password")
        /\ SmtpDataAvailableEvent_auth_type(smtp_data_available[1])
              = ChangedBag["auth_type"]
        /\ SmtpDataAvailableEvent_transport_security(smtp_data_available[1])
              = ChangedBag["transport_security"]
        /\ SmtpDataAvailableEvent_domain(smtp_data_available[1])
              = get(ChangedBag, "domain")

C17_Witness ==
    /\ RelationChanged /\ ~last.was_leader
    /\ ChangedBag = SAMPLE_LEGACY_RELATION_DATA
    /\ Len(smtp_data_available) = 1
    /\ SmtpDataAvailableEvent_port(smtp_data_available[1]) = 25
    /\ \E r \in ModernIds \cap relations : BagValid(relation_data[r])

\* The data-bag of relation r refers to the secret that changed.
RefersToChanged(r) ==
    /\ "password_id" \in DOMAIN relation_data[r]
    /\ _secret_uri_equal(relation_data[r]["password_id"], last.secret)

Emitted(r) ==
    Cardinality({i \in 1..Len(smtp_data_available) :
                    smtp_data_available[i].relation = r})

\* C18: on secret-changed for reference s the requirer emits exactly one
\* smtp_data_available for each relation whose password_id denotes s, and
\* none for a relation with another password_id or without one.
C18_SecretChangedReemits ==
    last.kind = "secret_changed" =>
        \A r \in relations :
            Emitted(r) = (IF RefersToChanged(r) THEN 1 ELSE 0)

\* C19: over any sequence of events and leadership changes the charm creates
\* at most one secret: once secret-id is recorded every handler leaves it
\* and the set of secrets as they are, also when the password was cleared
\* and configured again.
C19_AtMostOneSecret ==
    /\ Cardinality(DOMAIN secrets) <= 1
    /\ Recorded(peer_data) => peer_data["secret-id"] \in DOMAIN secrets
    /\ ((Reconciled \/ RelationBroken) /\ Recorded(last.pre.peer)) =>
          /\ Recorded(peer_data)
          /\ peer_data["secret-id"] = last.pre.peer["secret-id"]
          /\ DOMAIN secrets = DOMAIN last.pre.secrets

\* The pass reuses a secret whose grant was revoked while the password was
\* empty: the data-bag still holds the password_id of the earlier pass.
C19_Witness ==
    /\ LeaderReconciled /\ unit_status = "active"
    /\ Truthy(config.password) /\ has_secrets
    /\ Recorded(last.pre.peer)
    /\ latest_content(PrePeerSecret) # Desired
    /\ \E r \in ModernIds \cap relations :
          /\ "password_id" \in DOMAIN last.pre.data[r]
          /\ r \notin PrePeerSecret.grants
          /\ r \in PeerSecret.grants

\* C20 as stated: after a leader pass with an empty password the peer store
\* records no secret-id.
C20_EmptyPasswordClearsReference ==
    (LeaderReconciled /\ ~Truthy(config.password)) => ~Recorded(peer_data)

\* C20, amended: a leader pass with an empty password leaves the peer store
\* as it was, a recorded secret-id included; when the pass ends active, no
\* existing modern relation holds a grant of the recorded secret.
C20_EmptyPasswordKeepsReference ==
    (LeaderReconciled /\ ~Truthy(config.password)) =>
        /\ peer_data = last.pre.peer
        /\ (unit_status = "active" /\ Recorded(peer_data)) =>
              \A r \in ModernIds \cap relations : r \notin PeerSecret.grants

C20_Witness ==
    /\ LeaderReconciled /\ ~Truthy(config.password) /\ unit_status = "active"
    /\ Recorded(last.pre.peer) /\ Recorded(peer_data)
    /\ \E r \in ModernIds \cap relations : r \in PrePeerSecret.grants

\* C21: after a successful leader pass with an empty password while a
\* secret-id is recorded, the recorded secret is granted to none of the
\* existing modern relations.
C21_EmptyPasswordRevokesGrants ==
    (/\ LeaderReconciled /\ unit_status = "active"
     /\ ~Truthy(config.password) /\ Recorded(last.pre.peer)) =>
        PeerSecret.grants \cap (ModernIds \cap relations) = {}

\* The pass took the grant away from every modern relation, two of them.
C21_Witness ==
    /\ LeaderReconciled /\ unit_status = "active"
    /\ ~Truthy(config.password) /\ Recorded(last.pre.peer)
    /\ Cardinality(ModernIds \cap relations) = 2
    /\ ModernIds \cap relations \subseteq PrePeerSecret.grants
    /\ PeerSecret.grants = {}

\* C22: a leader reconcile event that ends in Blocked status modified no
\* relation data-bag, no secret content or grant and no peer-store entry:
\* there are no partial writes.
C22_BlockedWritesNothing ==
    (LeaderReconciled /\ unit_status = "blocked") => World = last.pre

\* The first two steps of the pass that produced this state: the sanity call
\* of _generate_smtp_data, and the legacy loop that follows it.
Validated == _generate_smtp_data(last.pre)
LegacyDone == _reconcile_smtp_legacy(Validated.w)

\* C23: in a leader pass the configuration is validated before any relation
\* data-bag is written, and every legacy data-bag is written before any
\* modern data-bag is written or any grant or revoke is performed: a pass
\* whose validation fails leaves every data-bag alone, the validation step
\* itself writes none, the legacy step changes no modern data-bag and no
\* grant, and the legacy data-bags are those of the legacy step whatever
\* becomes of the modern step.
C23_ValidateThenLegacyThenModern ==
    LeaderReconciled =>
        /\ Validated.w.data = last.pre.data
        /\ Validated.exc # OK => SameData(RelIds)
        /\ Validated.exc = OK =>
              /\ \A r \in LegacyIds : relation_data[r] = LegacyDone.w.data[r]
              /\ \A r \in ModernIds : LegacyDone.w.data[r] = last.pre.data[r]
              /\ \A id \in DOMAIN LegacyDone.w.secrets :
                    LegacyDone.w.secrets[id].grants
                        = Validated.w.secrets[id].grants

\* The modern step failed on a host without secrets after the legacy step
\* had published the configuration.
C23_Witness ==
    /\ LeaderReconciled /\ unit_status = "blocked" /\ ConfigValid
    /\ ModernIds \cap relations # {}
    /\ \E r \in LegacyIds \cap relations :
          /\ relation_data[r] # last.pre.data[r]
          /\ relation_data[r]["host"] = config.host

\* C24: on a host without secrets a leader pass over a valid configuration
\* updates every legacy data-bag (with the plaintext password when one is
\* configured), writes no modern data-bag, creates no secret and leaves the
\* peer store alone.
C24_NoSecretsLegacyOnly ==
    (LeaderReconciled /\ ~has_secrets /\ ConfigValid) =>
        /\ \A r \in LegacyIds \cap relations :
              /\ relation_data[r]["host"] = config.host
              /\ relation_data[r]["port"] = ToString(config.port)
              /\ Truthy(config.password) =>
                    /\ "password" \in DOMAIN relation_data[r]
                    /\ relation_data[r]["password"] = config.password
              /\ "password_id" \notin DOMAIN relation_data[r]
        /\ SameData(ModernIds)
        /\ secrets = EmptyDict
        /\ peer_data = last.pre.peer

\* A legacy data-bag received a new plaintext password next to an existing
\* modern relation whose data-bag stayed empty.
C24_Witness ==
    /\ LeaderReconciled /\ ~has_secrets /\ ConfigValid
    /\ Truthy(config.password)
    /\ \E r \in ModernIds \cap relations : relation_data[r] = EmptyDict
    /\ \E r \in LegacyIds \cap relations :
          /\ "password" \in DOMAIN last.pre.data[r]
          /\ last.pre.data[r]["password"] # relation_data[r]["password"]

Populated ==
    \A r \in relations :
        /\ {"host", "port"} \subseteq DOMAIN relation_data[r]
        /\ relation_data[r]["host"] = config.host
        /\ relation_data[r]["port"] = ToString(config.port)

\* C26 as stated: a leader reconcile event without the peer relation ends
\* Waiting when a non-empty password meets secret support or when any modern
\* relation exists; with the peer relation and a valid configuration it
\* populates every data-bag and ends Active.
C26_PeerStoreNeededWaits ==
    (/\ LeaderReconciled
     /\ \/ Truthy(config.password) /\ has_secrets
        \/ ModernIds \cap relations # {}) =>
        /\ ~peer_relation => unit_status = "waiting"
        /\ (peer_relation /\ ConfigValid) =>
              unit_status = "active" /\ Populated

\* C26, amended: the event without the peer relation ends Waiting when the
\* host supports secrets and either the password is not empty or the
\* configuration is valid and a modern relation exists; with the peer
\* relation, secret support and a valid configuration it populates every
\* data-bag and ends Active.
C26_SecretsHostWaitsForPeer ==
    (LeaderReconciled /\ has_secrets) =>
        /\ (/\ ~peer_relation
            /\ \/ Truthy(config.password)
               \/ ConfigValid /\ ModernIds \cap relations # {}) =>
              unit_status = "waiting"
        /\ (peer_relation /\ ConfigValid) =>
              unit_status = "active" /\ Populated

\* A modern relation alone, without a password, makes the leader wait for
\* the peer relation.
C26_Witness ==
    /\ LeaderReconciled /\ has_secrets /\ ~peer_relation
    /\ ~Truthy(config.password) /\ ConfigValid
    /\ ModernIds \cap relations # {}
    /\ unit_status = "waiting"

\* C27: no handler lets a not-ready condition escape: without the peer
\* relation every handler run by the leader, the relation-broken handler of
\* a modern relation included, completes and leaves the unit Waiting or its
\* status unchanged.
C27_NotReadyNeverEscapes ==
    (/\ Reconciled \/ RelationBroken
     /\ last.was_leader /\ ~peer_relation) => unit_status # "error"

\* C28: the secret is created lazily: a leader pass while no modern relation
\* exists creates no secret, whatever the password, and does not wait for
\* the peer store.
C28_SecretCreatedLazily ==
    (LeaderReconciled /\ ModernIds \cap relations = {}) =>
        /\ DOMAIN secrets = DOMAIN last.pre.secrets
        /\ unit_status # "waiting"

\* The recorded secret-id does not resolve in the secret store.
Dangling(w) ==
    Recorded(w.peer) /\ w.peer["secret-id"] \notin DOMAIN w.secrets

\* C29: a leader pass with a non-empty password that finds a recorded
\* secret-id which does not resolve creates a new secret holding the desired
\* content and records its id, instead of failing.
C29_DanglingIdIsReplaced ==
    (/\ LeaderReconciled /\ Truthy(config.password) /\ has_secrets
     /\ Dangling(last.pre)) =>
        /\ unit_status # "error"
        /\ ~Dangling(World)
        /\ latest_content(PeerSecret) = Desired

\* The revisions that the last handler added to secret id.
Written(id) ==
    IF id \in DOMAIN last.pre.secrets
    THEN SubSeq(secrets[id].revisions,
                Len(last.pre.secrets[id].revisions) + 1,
                Len(secrets[id].revisions))
    ELSE secrets[id].revisions

\* C30: every revision of a secret of the charm has exactly the key password
\* with a non-empty value, and a revision a handler wrote holds the password
\* configured during that handler; no handler writes an empty password, and
\* none writes more than one revision.
C30_SecretHoldsConfiguredPassword ==
    \A id \in DOMAIN secrets :
        /\ \A i \in 1..Len(secrets[id].revisions) :
              /\ DOMAIN secrets[id].revisions[i] = {"password"}
              /\ Truthy(secrets[id].revisions[i]["password"])
        /\ (Reconciled \/ RelationBroken) =>
              \/ Written(id) = <<>>
              \/ /\ Written(id) = <<Desired>>
                 /\ Reconciled /\ Truthy(config.password)

\* The pass wrote a second revision with the new password; the first one
\* holds the password configured before.
C30_Witness ==
    /\ LeaderReconciled /\ Recorded(peer_data)
    /\ Len(PeerSecret.revisions) = 2
    /\ Written(peer_data["secret-id"]) = <<Desired>>
    /\ PeerSecret.revisions[1] # Desired

\* C31: after every completed leader handler each existing modern relation
\* whose data-bag contains a password_id holds a grant of the secret the id
\* refers to.
C31_PublishedReferenceIsGranted ==
    (/\ Reconciled \/ RelationBroken
     /\ last.was_leader /\ unit_status # "error") =>
        \A r \in ModernIds \cap relations :
            "password_id" \in DOMAIN relation_data[r] =>
                /\ relation_data[r]["password_id"] \in DOMAIN secrets
                /\ r \in secrets[relation_data[r]["password_id"]].grants

\* C32: a reconcile event on a unit that is not the leader ends with unit
\* status Active, for valid and for invalid configuration, with and without
\* the peer relation; an event that ends Blocked or Waiting ran on the
\* leader.
C32_NonLeaderIsActive ==
    Reconciled =>
        /\ ~last.was_leader => unit_status = "active"
        /\ unit_status \in {"blocked", "waiting"} => last.was_leader

\* The same event on the leader would end Waiting (password, no peer
\* relation) with an invalid configuration.
C32_Witness ==
    /\ Reconciled /\ ~last.was_leader /\ unit_status = "active"
    /\ ~ConfigValid /\ Truthy(config.password) /\ has_secrets
    /\ ~peer_relation /\ ModernIds \cap relations # {}

\* C33: a leadership change runs the reconciliation: the step in which a
\* unit with a valid configuration, secret support and the peer relation
\* becomes leader populates the data-bag of every existing relation.
C33_NewLeaderPopulates ==
    [][(/\ ~is_leader /\ is_leader'
        /\ ConfigValid /\ has_secrets /\ peer_relation) => Populated']_vars

\* What a reference of SecretUris denotes, by its construction.
Denoted(uri) ==
    CHOOSE d \in [model : ModelUuids \cup {None}, id : SecretIds] :
        uri \in (IF d.model = None
                 THEN {"secret://" \o d.id, "secret:" \o d.id, d.id}
                 ELSE {"secret://" \o d.model \o "/" \o d.id,
                       "secret:" \o d.model \o "/" \o d.id})

\* C34: the secret-reference equality is symmetric and true exactly when the
\* two references denote the same secret: the forms secret://<owner>/<id>,
\* secret:<owner>/<id>, secret://<id>, secret:<id> and <id> with the same id
\* are equal, references with different ids, or with the same id and
\* different owners, are not.
C34_SecretUriEqual ==
    last.kind = "secret_uri_equal" =>
        /\ last.result = _secret_uri_equal(last.right, last.left)
        /\ last.result =
              (/\ Denoted(last.left).id = Denoted(last.right).id
               /\ ~(/\ Denoted(last.left).model # None
                    /\ Denoted(last.right).model # None
                    /\ Denoted(last.left).model # Denoted(last.right).model))

\* A reference with owner and double slash equals the bare id.
C34_Witness ==
    /\ last.kind = "secret_uri_equal" /\ last.result
    /\ last.left = "secret://d41591b7-fa4d-4b2b-8ae2-d6015d5677da/d2rhncfmp25c765918hg"
    /\ last.right = "d2rhncfmp25c765918hg"

\* C35: on the requirer, relation-changed over a data-bag that has a host and
\* another field that does not decode (a port that is no number, an unknown
\* auth_type) emits no smtp_data_available.
C35_MalformedBagEmitsNothing ==
    (/\ RelationChanged /\ "host" \in DOMAIN ChangedBag
     /\ ~BagValid(ChangedBag)) => smtp_data_available = <<>>

\* The relation can read the content of the secret that reference id denotes.
Readable(id, relation) ==
    \E s \in DOMAIN secrets :
        _secret_uri_equal(id, s) /\ relation \in secrets[s].grants

\* C36: on the requirer, relation-changed over a modern data-bag with a host
\* and a password_id whose secret cannot be read emits no event: no
\* smtp_data_available carries a missing password for it.
C36_UnreadableSecretEmitsNothing ==
    (/\ RelationChanged /\ "host" \in DOMAIN ChangedBag
     /\ "password_id" \in DOMAIN ChangedBag
     /\ ~Readable(ChangedBag["password_id"], last.relation)) =>
        \A i \in 1..Len(smtp_data_available) :
            SmtpDataAvailableEvent_password(smtp_data_available[i]) # None

\* Key k is in the data-bag exactly when the bundle's value is not empty, and
\* then holds that value.
OnlyWhenSet(bag, k, value) ==
    IF Truthy(value) THEN k \in DOMAIN bag /\ bag[k] = value
    ELSE k \notin DOMAIN bag

\* C37: the legacy encoding of a bundle always contains host, port as a
\* decimal string, auth_type and transport_security; it contains user,
\* password and domain only when the field is not empty; it never contains
\* password_id.
C37_LegacyEncoding ==
    last.kind = "encode_legacy" =>
        /\ {"host", "port", "auth_type", "transport_security"}
              \subseteq DOMAIN relation_data[LegacyRelation]
        /\ relation_data[LegacyRelation]["host"] = config.host
        /\ IsDecimal(relation_data[LegacyRelation]["port"])
        /\ int(relation_data[LegacyRelation]["port"]) = config.port
        /\ relation_data[LegacyRelation]["auth_type"] = config.auth_type
        /\ relation_data[LegacyRelation]["transport_security"]
              = config.transport_security
        /\ OnlyWhenSet(relation_data[LegacyRelation], "user", config.user)
        /\ OnlyWhenSet(relation_data[LegacyRelation], "password",
                       config.password)
        /\ OnlyWhenSet(relation_data[LegacyRelation], "domain", config.domain)
        /\ "password_id" \notin DOMAIN relation_data[LegacyRelation]

\* A bundle with a password_id, an empty user and no domain, encoded for the
\* legacy relation with its password.
C37_Witness ==
    /\ last.kind = "encode_legacy"
    /\ config.password_id = "secret:1" /\ config.password = "somepassword"
    /\ config.user = "" /\ config.domain = None /\ config.port = 65536
    /\ "password" \in DOMAIN relation_data[LegacyRelation]

\* C38: the relation encoding of a bundle that holds both a plaintext
\* password and a password_id contains password_id and no password key,
\* together with host, port, auth_type, transport_security, the user and the
\* domain that are set, and skip_ssl_verify as the string True or False.
C38_ModernEncoding ==
    (/\ last.kind = "encode_modern"
     /\ Truthy(config.password) /\ Truthy(config.password_id)) =>
        /\ "password_id" \in DOMAIN relation_data[ModernRelation]
        /\ relation_data[ModernRelation]["password_id"] = config.password_id
        /\ "password" \notin DOMAIN relation_data[ModernRelation]
        /\ {"host", "port", "auth_type", "transport_security",
            "skip_ssl_verify"} \subseteq DOMAIN relation_data[ModernRelation]
        /\ relation_data[ModernRelation]["host"] = config.host
        /\ int(relation_data[ModernRelation]["port"]) = config.port
        /\ relation_data[ModernRelation]["auth_type"] = config.auth_type
        /\ relation_data[ModernRelation]["transport_security"]
              = config.transport_security
        /\ OnlyWhenSet(relation_data[ModernRelation], "user", config.user)
        /\ OnlyWhenSet(relation_data[ModernRelation], "domain", config.domain)
        /\ relation_data[ModernRelation]["skip_ssl_verify"]
              = (IF config.skip_ssl_verify THEN "True" ELSE "False")

\* The bundle of test_smtp_relation_data_to_relation_data.
C38_Witness ==
    /\ last.kind = "encode_modern"
    /\ config = [host |-> "example.smtp", port |-> 25,
                 user |-> "example_user", password |-> "somepassword",
                 password_id |-> "secret:1", auth_type |-> "plain",
                 transport_security |-> "tls", domain |-> "domain",
                 skip_ssl_verify |-> FALSE]
    /\ DOMAIN relation_data[ModernRelation]
          = {"host", "port", "user", "password_id", "auth_type",
             "transport_security", "domain", "skip_ssl_verify"}

\* The requirer read the data-bag of a relation the bundle was encoded for.
Decoded ==
    /\ RelationChanged /\ Len(smtp_data_available) = 1
    /\ ~Truthy(config.password)

\* C39 as stated: the fields read back from the legacy or the modern
\* encoding of a valid bundle without a password equal the bundle's host,
\* port, user, auth_type, transport_security and domain.
C39_RoundTrip ==
    Decoded =>
        /\ SmtpDataAvailableEvent_host(smtp_data_available[1]) = config.host
        /\ SmtpDataAvailableEvent_port(smtp_data_available[1]) = config.port
        /\ SmtpDataAvailableEvent_user(smtp_data_available[1]) = config.user
        /\ SmtpDataAvailableEvent_auth_type(smtp_data_available[1])
              = config.auth_type
        /\ SmtpDataAvailableEvent_transport_security(smtp_data_available[1])
              = config.transport_security
        /\ SmtpDataAvailableEvent_domain(smtp_data_available[1])
              = config.domain

\* An optional field as it is read back: None when it is unset or empty.
ReadBack(value) == IF Truthy(value) THEN value ELSE None

\* C39, amended: the fields read back equal the bundle's host, port,
\* auth_type and transport_security, and its user and domain with an empty
\* string read back as None.
C39_RoundTripUpToEmpty ==
    Decoded =>
        /\ SmtpDataAvailableEvent_host(smtp_data_available[1]) = config.host
        /\ SmtpDataAvailableEvent_port(smtp_data_available[1]) = config.port
        /\ SmtpDataAvailableEvent_user(smtp_data_available[1])
              = ReadBack(config.user)
        /\ SmtpDataAvailableEvent_auth_type(smtp_data_available[1])
              = config.auth_type
        /\ SmtpDataAvailableEvent_transport_security(smtp_data_available[1])
              = config.transport_security
        /\ SmtpDataAvailableEvent_domain(smtp_data_available[1])
              = ReadBack(config.domain)

\* An empty user comes back as None from the modern encoding of a bundle
\* with a password_id.
C39_Witness ==
    /\ Decoded /\ last.relation = ModernRelation
    /\ config.user = "" /\ config.domain = "domain"
    /\ config.password_id = "secret:1" /\ config.port = 65536
    /\ SmtpDataAvailableEvent_user(smtp_data_available[1]) = None
    /\ SmtpDataAvailableEvent_port(smtp_data_available[1]) = 65536

====
